---------------------------- MODULE Spec2Model ----------------------------
(* The pomidoras daemon: the Timer (duration, state, ticker, mu), the run   *)
(* goroutines that listen on time.Ticker channels, and the per-connection   *)
(* handleConnection goroutines of the unix-socket server.                   *)
(* Durations are counted in whole seconds.                                  *)
EXTENDS Integers, Sequences, FiniteSets, TLC

(* ------------------------------ bounds ---------------------------------- *)
\* connections handled at the same time
NHandlers == 1
\* tickers (and run goroutines) created over one run
MaxLoops == 2
\* |duration| stays within this many seconds
MaxDur == 2
\* largest initial duration given on the command line
MaxInit == 1

Handlers == 1..NHandlers
Loops == 1..MaxLoops

(* ----------------------------- constants -------------------------------- *)
StateCountdown == "countdown"
StateIdle == "idle"
RequestTypeStatus == "status"
RequestTypeAddSeconds == "add_seconds"
RequestTypeReset == "reset"

VARIABLES
    duration,         \* Timer.duration, seconds
    initialDuration,  \* Timer.initialDuration
    state,            \* Timer.state
    ticker,           \* Timer.ticker: 0 is nil, k > 0 the k-th ticker created
    muW,              \* Timer.mu is held exclusively
    muR,              \* the handlers that hold Timer.mu shared
    stopped,          \* per ticker: Stop was called
    nTickers,         \* tickers created so far; goroutine k is spawned with ticker k
    gpc,              \* per run goroutine: where it is
    gchan,            \* per run goroutine: the ticker whose channel it ranges over
    mainpc,           \* main: "start", "listen", "accept", "exited"
    stalled,          \* some accepted connection's client has sent nothing
    hpc,              \* per handler: where it is
    hraw,             \* per handler: the bytes the client sent
    hsec,             \* per handler: seconds, the result of strconv.Atoi
    hstatus,          \* per handler: the TimerStatus being built by GetStatus
    hresp             \* per handler: the Response

timerVars == <<duration, initialDuration, state, ticker, stopped, nTickers, gpc,
               gchan>>
lockVars == <<muW, muR>>
handlerVars == <<hpc, hraw, hsec, hstatus, hresp>>
vars == <<timerVars, lockVars, mainpc, stalled, handlerVars>>

(* --------------------------- wire messages ------------------------------ *)
Digits == <<"0", "1", "2", "3", "4", "5", "6", "7", "8", "9">>

DigitVal(c) == (CHOOSE i \in 1..10 : Digits[i] = c) - 1

IsDigit(c) == \E i \in 1..10 : Digits[i] = c

RECURSIVE Itoa(_)
Itoa(n) ==
    IF n < 0 THEN "-" \o Itoa(-n)
    ELSE IF n < 10 THEN Digits[n + 1]
    ELSE Itoa(n \div 10) \o Digits[(n % 10) + 1]

RECURSIVE ParseDigits(_, _)
ParseDigits(s, acc) ==
    IF s = <<>> THEN acc ELSE ParseDigits(Tail(s), acc * 10 + DigitVal(Head(s)))

\* strconv.Atoi: an optional sign, then one or more decimal digits
Atoi(s) ==
    LET signed == s # <<>> /\ Head(s) \in {"+", "-"}
        body == IF signed THEN Tail(s) ELSE s
        ok == body # <<>> /\ \A i \in 1..Len(body) : IsDigit(body[i])
        mag == IF ok THEN ParseDigits(body, 0) ELSE 0
    IN  [err |-> ~ok,
         val |-> IF signed /\ Head(s) = "-" THEN -mag ELSE mag]

ZeroStatus == [State |-> "", Duration |-> 0]
ZeroRequest == [Type |-> "", Payload |-> <<>>]
ZeroResponse == [Success |-> FALSE, Message |-> "", Status |-> ZeroStatus]

Payloads == {<<"2">>, <<"-", "1">>, <<"0">>, <<"x">>}

\* what a client can write on the connection: a JSON object of the Request
\* schema, or bytes that are no JSON value of that schema
RawMessages ==
    [form : {"object"},
     type : {RequestTypeStatus, RequestTypeReset},
     payload : {<<>>}]
    \cup [form : {"object"}, type : {RequestTypeAddSeconds}, payload : Payloads]
    \cup [form : {"object"}, type : {"pause"}, payload : {<<>>}]
    \cup [form : {"garbage"}, type : {""}, payload : {<<>>}]

NoRaw == [form |-> "none", type |-> "", payload |-> <<>>]

\* json.Decoder.Decode(&req)
Decode(raw) ==
    IF raw.form = "object"
    THEN [err |-> FALSE, req |-> [Type |-> raw.type, Payload |-> raw.payload]]
    ELSE [err |-> TRUE, req |-> ZeroRequest]


(* ------------------------------ sync.RWMutex ---------------------------- *)
\* Every write of duration, state and ticker is made between t.mu.Lock() and
\* t.mu.Unlock(), so a writer's critical section is one step; mu stays held
\* across steps only while run waits for notify-send, and while GetStatus reads.

\* mu.Lock() returns: no writer and no reader holds mu
CanLock == ~muW /\ muR = {}

\* a goroutine is in mu.Lock(): run after it received a tick, AddSeconds, Reset
WriterWaiting ==
    \/ \E g \in Loops : gpc[g] = "lock"
    \/ \E h \in Handlers : hpc[h] \in {"add1", "reset1"}

\* mu.RLock() returns: no writer holds mu, and no Lock() is pending behind the
\* readers that hold it (a blocked Lock keeps new readers out)
CanRLock == ~muW /\ (muR = {} \/ ~WriterWaiting)

Alive == mainpc # "exited"

(* -------------------- the Timer, its tickers and loops ------------------ *)
\* the Timer with the tickers it has created and the run goroutines it has spawned
T ==
    [duration |-> duration, initialDuration |-> initialDuration, state |-> state,
     ticker |-> ticker, stopped |-> stopped,
     nTickers |-> nTickers, gpc |-> gpc, gchan |-> gchan]

Set(t) ==
    /\ duration' = t.duration
    /\ initialDuration' = t.initialDuration
    /\ state' = t.state
    /\ ticker' = t.ticker
    /\ stopped' = t.stopped
    /\ nTickers' = t.nTickers
    /\ gpc' = t.gpc
    /\ gchan' = t.gchan

Put(f, k, v) == [i \in DOMAIN f \cup {k} |-> IF i = k THEN v ELSE f[i]]

\* t.ticker = time.NewTicker(1 * time.Second); go t.run()
\* ticker k and goroutine k come together
NewTicker(t) ==
    LET k == t.nTickers + 1
    IN  [t EXCEPT !.nTickers = k,
                  !.ticker = k,
                  !.stopped = Put(@, k, FALSE),
                  !.gpc = Put(@, k, "spawned"),
                  !.gchan = Put(@, k, 0)]

\* Ticker.Stop: the channel is not closed, and no tick is received from it after
\* Stop returns (Go 1.23 on: the channel holds no stale tick)
TickerStop(t, k) == [t EXCEPT !.stopped[k] = TRUE]

\* the loops that can still decrement duration: not yet bound, listening on an
\* un-stopped ticker, or holding a received tick
AbleLoops(t) ==
    {g \in DOMAIN t.gpc :
        \/ t.gpc[g] \in {"spawned", "lock"}
        \/ t.gpc[g] = "recv" /\ ~t.stopped[t.gchan[g]]}

(* ------------------------------- NewTimer ------------------------------- *)
Init ==
    /\ initialDuration \in 0..MaxInit
    /\ duration = initialDuration
    /\ state = IF initialDuration > 0 THEN StateCountdown ELSE StateIdle
    /\ ticker = 0
    /\ muW = FALSE
    /\ muR = {}
    /\ stopped = [k \in Loops |-> FALSE]
    /\ nTickers = 0
    /\ gpc = [g \in Loops |-> "none"]
    /\ gchan = [g \in Loops |-> 0]
    /\ mainpc = "start"
    /\ stalled = FALSE
    /\ hpc = [h \in Handlers |-> "free"]
    /\ hraw = [h \in Handlers |-> NoRaw]
    /\ hsec = [h \in Handlers |-> 0]
    /\ hstatus = [h \in Handlers |-> ZeroStatus]
    /\ hresp = [h \in Handlers |-> ZeroResponse]

(* ------------------------------ Timer.Start ----------------------------- *)
StartOn(t) ==
    IF t.duration > 0
    THEN NewTicker([t EXCEPT !.state = StateCountdown])
    ELSE [t EXCEPT !.state = StateIdle]

\* called by main before any other goroutine exists
Start ==
    /\ mainpc = "start"
    /\ mainpc' = "listen"
    /\ Set(StartOn(T))
    /\ UNCHANGED <<lockVars, stalled, handlerVars>>

(* ------------------------------- Timer.run ------------------------------ *)
\* for range t.ticker.C: the range expression is evaluated once, when the
\* goroutine first runs, without holding mu
Bind(g) ==
    /\ Alive
    /\ gpc[g] = "spawned"
    /\ gchan' = [gchan EXCEPT ![g] = ticker]
    /\ gpc' = [gpc EXCEPT ![g] = "recv"]
    /\ UNCHANGED <<duration, initialDuration, state, ticker, stopped, nTickers,
                   lockVars, mainpc, stalled, handlerVars>>

\* the next tick of the goroutine's ticker is received from the channel, which
\* an un-stopped ticker sends once per second; the goroutine goes for t.mu.Lock()
Recv(g) ==
    /\ Alive
    /\ gpc[g] = "recv"
    /\ ~stopped[gchan[g]]
    /\ gpc' = [gpc EXCEPT ![g] = "lock"]
    /\ UNCHANGED <<duration, initialDuration, state, ticker, stopped, nTickers,
                   gchan, lockVars, mainpc, stalled, handlerVars>>

\* the loop body as it would be with the test t.duration < 0 in place of
\* t.duration <= 0
TickOnBelowZero(t, g) ==
    IF t.duration - 1 < 0
    THEN [TickerStop(t, t.ticker) EXCEPT !.state = StateIdle,
                                         !.duration = 0,
                                         !.gpc[g] = "notify"]
    ELSE [t EXCEPT !.duration = t.duration - 1, !.gpc[g] = "recv"]

\* the loop body of goroutine g: t.duration -= time.Second; then either the zero
\* branch up to the start of sendNotification, or back to the channel
TickOn(t, g) ==
    IF t.duration - 1 <= 0
    THEN [TickerStop(t, t.ticker) EXCEPT !.state = StateIdle,
                                         !.duration = 0,
                                         !.gpc[g] = "notify"]
    ELSE [t EXCEPT !.duration = t.duration - 1, !.gpc[g] = "recv"]

\* t.mu.Lock(), the loop body, and t.mu.Unlock() unless sendNotification has
\* started: mu stays held until notify-send returns
RunTick(g) ==
    /\ Alive
    /\ gpc[g] = "lock"
    /\ CanLock
    /\ Set(TickOn(T, g))
    /\ muW' = (TickOn(T, g).gpc[g] = "notify")
    /\ UNCHANGED <<muR, mainpc, stalled, handlerVars>>

\* cmd.Run() of notify-send returns; t.mu.Unlock(); return
SinkReturn(g) ==
    /\ Alive
    /\ gpc[g] = "notify"
    /\ muW' = FALSE
    /\ gpc' = [gpc EXCEPT ![g] = "done"]
    /\ gchan' = [gchan EXCEPT ![g] = 0]
    /\ UNCHANGED <<duration, initialDuration, state, ticker, stopped, nTickers,
                   muR, mainpc, stalled, handlerVars>>

(* ------------------------- Timer.GetStatus ------------------------------ *)
\* GetStatus as it would be without t.mu.RLock(): the State field is read while
\* writers stay free to run
GetStatus_NoLock(h) ==
    /\ Alive
    /\ hpc[h] = "status1"
    /\ hstatus' = [hstatus EXCEPT ![h] = [State |-> state, Duration |-> 0]]
    /\ hpc' = [hpc EXCEPT ![h] = "status2"]
    /\ UNCHANGED <<timerVars, lockVars, mainpc, stalled, hraw, hsec, hresp>>

\* t.mu.RLock(); the State field of the TimerStatus literal is read
GetStatus_RLock(h) ==
    /\ Alive
    /\ hpc[h] = "status1"
    /\ CanRLock
    /\ muR' = muR \cup {h}
    /\ hstatus' = [hstatus EXCEPT ![h] = [State |-> state, Duration |-> 0]]
    /\ hpc' = [hpc EXCEPT ![h] = "status2"]
    /\ UNCHANGED <<timerVars, muW, mainpc, stalled, hraw, hsec, hresp>>

\* the Duration field is read; t.mu.RUnlock(); Response{Success: true, Status: status}
GetStatus_Return(h) ==
    /\ Alive
    /\ hpc[h] = "status2"
    /\ muR' = muR \ {h}
    /\ hstatus' = [hstatus EXCEPT ![h] = ZeroStatus]
    /\ hresp' = [hresp EXCEPT ![h] =
                    [Success |-> TRUE, Message |-> "",
                     Status |-> [hstatus[h] EXCEPT !.Duration = duration]]]
    /\ hpc' = [hpc EXCEPT ![h] = "respond"]
    /\ UNCHANGED <<timerVars, muW, mainpc, stalled, hraw, hsec>>

\* AddSeconds as it would be with the test t.duration >= 0 in place of
\* t.duration > 0
AddSecondsStartingAtZero(t, seconds) ==
    LET d == t.duration + seconds
    IN  IF t.state = StateIdle /\ d >= 0
        THEN NewTicker([t EXCEPT !.duration = d, !.state = StateCountdown])
        ELSE [t EXCEPT !.duration = d]

(* ------------------------- Timer.AddSeconds ----------------------------- *)
AddSecondsOn(t, seconds) ==
    LET d == t.duration + seconds
    IN  IF t.state = StateIdle /\ d > 0
        THEN NewTicker([t EXCEPT !.duration = d, !.state = StateCountdown])
        ELSE [t EXCEPT !.duration = d]

\* timer.AddSeconds(seconds) and Response{Success: true, Message: "Added %d seconds."}
AddSeconds(h) ==
    /\ Alive
    /\ hpc[h] = "add1"
    /\ CanLock
    /\ duration + hsec[h] \in -MaxDur..MaxDur
    /\ AddSecondsOn(T, hsec[h]).nTickers <= MaxLoops
    /\ Set(AddSecondsOn(T, hsec[h]))
    /\ hresp' = [hresp EXCEPT ![h] =
                    [Success |-> TRUE,
                     Message |-> "Added " \o Itoa(hsec[h]) \o " seconds.",
                     Status |-> ZeroStatus]]
    /\ hpc' = [hpc EXCEPT ![h] = "respond"]
    /\ UNCHANGED <<lockVars, mainpc, stalled, hraw, hsec, hstatus>>

(* ---------------------------- Timer.Reset ------------------------------- *)
(* ---------------------------- Timer.Reset ------------------------------- *)
\* Reset as it would be without the restart: the old ticker is stopped, the
\* state set, and no new ticker or goroutine is created
ResetWithoutRestart(t) ==
    LET s == IF t.ticker # 0 THEN TickerStop(t, t.ticker) ELSE t
        r == [s EXCEPT !.duration = t.initialDuration]
    IN  IF r.duration > 0
        THEN [r EXCEPT !.state = StateCountdown]
        ELSE [r EXCEPT !.state = StateIdle]

ResetOn(t) ==
    LET s == IF t.ticker # 0 THEN TickerStop(t, t.ticker) ELSE t
        r == [s EXCEPT !.duration = t.initialDuration]
    IN  IF r.duration > 0
        THEN NewTicker([r EXCEPT !.state = StateCountdown])
        ELSE [r EXCEPT !.state = StateIdle]

\* timer.Reset() and Response{Success: true, Message: "Timer reset."}
Reset(h) ==
    /\ Alive
    /\ hpc[h] = "reset1"
    /\ CanLock
    /\ ResetOn(T).nTickers <= MaxLoops
    /\ Set(ResetOn(T))
    /\ hresp' = [hresp EXCEPT ![h] =
                    [Success |-> TRUE, Message |-> "Timer reset.",
                     Status |-> ZeroStatus]]
    /\ hpc' = [hpc EXCEPT ![h] = "respond"]
    /\ UNCHANGED <<lockVars, mainpc, stalled, hraw, hsec, hstatus>>

(* --------------------------- handleConnection --------------------------- *)
\* a handler that would close the connection on a decode error with an empty
\* response
DecodeErrorSilent ==
    [Success |-> FALSE, Message |-> "", Status |-> ZeroStatus]

\* the response to bytes that do not decode into a Request
DecodeErrorResponse ==
    [Success |-> FALSE, Message |-> "Invalid request format.", Status |-> ZeroStatus]

\* the response to an add_seconds request whose payload strconv.Atoi rejects
AtoiErrorResponse ==
    [Success |-> FALSE, Message |-> "Invalid seconds value.", Status |-> ZeroStatus]

\* the response to a request whose type is none of the three
UnknownTypeResponse ==
    [Success |-> FALSE, Message |-> "Unknown request type.", Status |-> ZeroStatus]

\* a dispatch that would discard the error of strconv.Atoi and add the zero it
\* returns
DispatchIgnoringAtoiError(raw) ==
    LET d == Decode(raw)
        a == Atoi(d.req.Payload)
    IN  IF d.err
        THEN [pc |-> "respond", sec |-> 0, resp |-> DecodeErrorResponse]
        ELSE CASE d.req.Type = RequestTypeStatus ->
                    [pc |-> "status1", sec |-> 0, resp |-> ZeroResponse]
               [] d.req.Type = RequestTypeAddSeconds ->
                    [pc |-> "add1", sec |-> IF a.err THEN 0 ELSE a.val,
                     resp |-> ZeroResponse]
               [] d.req.Type = RequestTypeReset ->
                    [pc |-> "reset1", sec |-> 0, resp |-> ZeroResponse]
               [] OTHER ->
                    [pc |-> "respond", sec |-> 0, resp |-> UnknownTypeResponse]

\* a dispatch that would return on an unknown request type without building a
\* response
DispatchDroppingUnknown(raw) ==
    LET d == Decode(raw)
        a == Atoi(d.req.Payload)
    IN  IF d.err
        THEN [pc |-> "respond", sec |-> 0, resp |-> DecodeErrorResponse]
        ELSE CASE d.req.Type = RequestTypeStatus ->
                    [pc |-> "status1", sec |-> 0, resp |-> ZeroResponse]
               [] d.req.Type = RequestTypeAddSeconds ->
                    IF a.err
                    THEN [pc |-> "respond", sec |-> 0, resp |-> AtoiErrorResponse]
                    ELSE [pc |-> "add1", sec |-> a.val, resp |-> ZeroResponse]
               [] d.req.Type = RequestTypeReset ->
                    [pc |-> "reset1", sec |-> 0, resp |-> ZeroResponse]
               [] OTHER ->
                    [pc |-> "free", sec |-> 0, resp |-> ZeroResponse]

\* decoder.Decode(&req) and the switch on req.Type: where the handler goes next,
\* the seconds it parsed, and the response when it is already decided
Dispatch(raw) ==
    LET d == Decode(raw)
        a == Atoi(d.req.Payload)
    IN  IF d.err
        THEN [pc |-> "respond", sec |-> 0, resp |-> DecodeErrorResponse]
        ELSE CASE d.req.Type = RequestTypeStatus ->
                    [pc |-> "status1", sec |-> 0, resp |-> ZeroResponse]
               [] d.req.Type = RequestTypeAddSeconds ->
                    IF a.err
                    THEN [pc |-> "respond", sec |-> 0, resp |-> AtoiErrorResponse]
                    ELSE [pc |-> "add1", sec |-> a.val, resp |-> ZeroResponse]
               [] d.req.Type = RequestTypeReset ->
                    [pc |-> "reset1", sec |-> 0, resp |-> ZeroResponse]
               [] OTHER ->
                    [pc |-> "respond", sec |-> 0, resp |-> UnknownTypeResponse]

\* the client's bytes arrive; the request is decoded and dispatched
Receive(h) ==
    /\ Alive
    /\ hpc[h] = "reading"
    /\ \E raw \in RawMessages :
          /\ hraw' = [hraw EXCEPT ![h] = raw]
          /\ hpc' = [hpc EXCEPT ![h] = Dispatch(raw).pc]
          /\ hsec' = [hsec EXCEPT ![h] = Dispatch(raw).sec]
          /\ hresp' = [hresp EXCEPT ![h] = Dispatch(raw).resp]
    /\ UNCHANGED <<timerVars, lockVars, mainpc, stalled, hstatus>>

\* encoder.Encode(response); the deferred conn.Close()
Respond(h) ==
    /\ Alive
    /\ hpc[h] = "respond"
    /\ hpc' = [hpc EXCEPT ![h] = "free"]
    /\ hraw' = [hraw EXCEPT ![h] = NoRaw]
    /\ hsec' = [hsec EXCEPT ![h] = 0]
    /\ hresp' = [hresp EXCEPT ![h] = ZeroResponse]
    /\ UNCHANGED <<timerVars, lockVars, mainpc, stalled, hstatus>>

(* --------------------------------- main --------------------------------- *)
\* os.Exit: the process and every goroutine of it are gone
ProcessExit ==
    /\ mainpc' = "exited"
    /\ stalled' = FALSE
    /\ duration' = 0
    /\ initialDuration' = 0
    /\ state' = StateIdle
    /\ ticker' = 0
    /\ muW' = FALSE
    /\ muR' = {}
    /\ stopped' = [k \in Loops |-> FALSE]
    /\ nTickers' = 0
    /\ gpc' = [g \in Loops |-> "none"]
    /\ gchan' = [g \in Loops |-> 0]
    /\ hpc' = [h \in Handlers |-> "free"]
    /\ hraw' = [h \in Handlers |-> NoRaw]
    /\ hsec' = [h \in Handlers |-> 0]
    /\ hstatus' = [h \in Handlers |-> ZeroStatus]
    /\ hresp' = [h \in Handlers |-> ZeroResponse]

\* net.Listen succeeds, or fails and the process exits
Listen ==
    /\ mainpc = "listen"
    /\ \/ /\ mainpc' = "accept"
          /\ UNCHANGED <<timerVars, lockVars, stalled, handlerVars>>
       \/ ProcessExit

\* an accept loop that would call handleConnection without go: it returns to
\* Accept only when no connection waits for its client
AcceptInline(h) ==
    /\ mainpc = "accept"
    /\ ~stalled
    /\ \A k \in Handlers : hpc[k] # "reading"
    /\ hpc[h] = "free"
    /\ hpc' = [hpc EXCEPT ![h] = "reading"]
    /\ UNCHANGED <<timerVars, lockVars, mainpc, stalled, hraw, hsec, hstatus, hresp>>

\* listener.Accept() returns a connection; go handleConnection(conn, timer)
Accept(h) ==
    /\ mainpc = "accept"
    /\ hpc[h] = "free"
    /\ hpc' = [hpc EXCEPT ![h] = "reading"]
    /\ UNCHANGED <<timerVars, lockVars, mainpc, stalled, hraw, hsec, hstatus, hresp>>

\* listener.Accept() returns a connection whose client sends nothing: its
\* handleConnection goroutine stays in decoder.Decode. Such goroutines hold no
\* state, so any number of them is one flag
AcceptStalled ==
    /\ mainpc = "accept"
    /\ ~stalled
    /\ stalled' = TRUE
    /\ UNCHANGED <<timerVars, lockVars, mainpc, handlerVars>>

\* os.Interrupt or SIGTERM: listener.Close(); os.Exit(0)
Shutdown ==
    /\ mainpc = "accept"
    /\ ProcessExit

Next ==
    \/ Start
    \/ Listen
    \/ Shutdown
    \/ \E h \in Handlers : Accept(h)
    \/ \E h \in Handlers : Receive(h)
    \/ \E h \in Handlers : GetStatus_RLock(h)
    \/ \E h \in Handlers : GetStatus_Return(h)
    \/ \E h \in Handlers : AddSeconds(h)
    \/ \E h \in Handlers : Reset(h)
    \/ \E h \in Handlers : Respond(h)
    \/ \E g \in Loops : Bind(g)
    \/ \E g \in Loops : Recv(g)
    \/ \E g \in Loops : RunTick(g)
    \/ \E g \in Loops : SinkReturn(g)

Spec == Init /\ [][Next]_vars

\* The scheduler runs every runnable goroutine, a ticker that is not stopped
\* keeps sending, notify-send returns, and a reader releases mu. A goroutine
\* waiting in mu.Lock() gets the lock although readers come and go: a pending
\* Lock keeps new readers out.
Fairness ==
    /\ \A g \in Loops : WF_vars(Bind(g))
    /\ \A g \in Loops : WF_vars(Recv(g))
    /\ \A g \in Loops : SF_vars(RunTick(g))
    /\ \A g \in Loops : WF_vars(SinkReturn(g))
    /\ \A h \in Handlers : WF_vars(GetStatus_Return(h))

FairSpec == Spec /\ Fairness

\* the daemon with clients that connect and never send
NextStalled == Next \/ AcceptStalled

SpecStalled == Init /\ [][NextStalled]_vars

(* ------------------------------- properties ---------------------------- *)
Started == mainpc \in {"listen", "accept"}

\* the decoded request of handler h
Req(h) == Decode(hraw[h]).req

\* handler h holds the response to a Status query
StatusAnswered(h) ==
    /\ hpc[h] = "respond"
    /\ ~Decode(hraw[h]).err
    /\ Req(h).Type = RequestTypeStatus

\* an un-stopped ticker is in t.ticker and a run goroutine listens on it or is
\* about to
TickLoopActive ==
    /\ ticker # 0
    /\ ~stopped[ticker]
    /\ \E g \in Loops :
          \/ gpc[g] = "spawned"
          \/ gpc[g] \in {"recv", "lock"} /\ gchan[g] = ticker

\* C1: no Status query ever returns a negative remaining duration.
C1_StatusNeverNegative ==
    \A h \in Handlers : StatusAnswered(h) => hresp[h].Status.Duration >= 0

\* C2: whenever the timer lock is free, the phase is Counting iff remaining > 0
\* and an un-stopped tick loop is active, and Idle iff remaining = 0 or no tick
\* loop is active.
C2_PhaseIffRemainingAndLoop ==
    (Started /\ ~muW) =>
        /\ (state = StateCountdown) <=> (duration > 0 /\ TickLoopActive)
        /\ (state = StateIdle) <=> (duration = 0 \/ ~TickLoopActive)

\* C3: a tick loop whose ticker is no longer the timer's ticker (it was
\* superseded by a Reset) never decrements the remaining duration.
C3_NoStaleDecrement ==
    [][\A g \in Loops : RunTick(g) => gchan[g] = ticker]_vars

\* C4: AddSeconds on a Counting timer that brings remaining to zero or below
\* leaves the timer Idle with remaining = 0.
C4_AddClampsToIdleZero ==
    [][\A h \in Handlers :
          (AddSeconds(h) /\ state = StateCountdown /\ duration + hsec[h] <= 0)
              => (state' = StateIdle /\ duration' = 0)]_vars

ResetAnswered(h) ==
    /\ hpc[h] = "respond"
    /\ ~Decode(hraw[h]).err
    /\ Req(h).Type = RequestTypeReset
    /\ hresp[h].Success

\* the state Reset leaves
AsResetLeft ==
    /\ duration = initialDuration
    /\ state = IF initialDuration > 0 THEN StateCountdown ELSE StateIdle

\* C6: Reset leaves remaining = initial, with Counting and a freshly started tick
\* loop when initial > 0, Idle and no active tick loop when initial = 0; that
\* state stands until the new loop ticks or another request is processed.
C6_ResetPostcondition ==
    /\ [][\A h \in Handlers :
            Reset(h) =>
                /\ duration' = initialDuration
                /\ IF initialDuration > 0
                   THEN /\ state' = StateCountdown
                        /\ nTickers' = nTickers + 1
                        /\ ticker' = nTickers'
                        /\ ~stopped'[ticker']
                        /\ gpc'[ticker'] = "spawned"
                   ELSE /\ state' = StateIdle
                        /\ ~TickLoopActive']_vars
    /\ [][((\E h \in Handlers : ResetAnswered(h)) /\ AsResetLeft /\ Alive')
            => \/ UNCHANGED <<duration, state, ticker, stopped>>
               \/ \E g \in Loops : RunTick(g) /\ gchan[g] = ticker
               \/ \E h \in Handlers : AddSeconds(h) \/ Reset(h)]_vars

\* phase, remaining and the number of tick loops that can still decrement
Abs(t) == <<t.state, t.duration, Cardinality(AbleLoops(t))>>

\* C7: a second Reset right after a Reset, no tick in between, leaves phase,
\* remaining and the number of tick loops able to decrement as the first left
\* them.
C7_ResetIdempotent ==
    (Started /\ CanLock) => Abs(ResetOn(ResetOn(T))) = Abs(ResetOn(T))

\* C8: a timer started with 0 is Idle and runs no tick loop until a positive
\* AddSeconds; whenever the timer is Idle and AddSeconds makes remaining
\* positive, exactly one new tick loop starts, the phase becomes Counting and
\* remaining equals the amount added.
C8_IdleAddStartsOneLoop ==
    /\ []((Started /\ initialDuration = 0 /\ nTickers = 0)
            => (state = StateIdle /\ AbleLoops(T) = {}))
    /\ [][(initialDuration = 0 /\ nTickers = 0 /\ nTickers' > 0)
            => \E h \in Handlers : AddSeconds(h) /\ hsec[h] > 0]_vars
    /\ [][\A h \in Handlers :
            (AddSeconds(h) /\ state = StateIdle /\ duration' > 0)
                => /\ state' = StateCountdown
                   /\ nTickers' = nTickers + 1
                   /\ Cardinality(AbleLoops(T)') = Cardinality(AbleLoops(T)) + 1
                   /\ duration' = hsec[h]]_vars

\* the request of handler h is malformed, of an unknown kind, or carries a
\* payload that is no integer
BadRequest(h) ==
    /\ hraw[h] # NoRaw
    /\ \/ Decode(hraw[h]).err
       \/ Req(h).Type \notin {RequestTypeStatus, RequestTypeAddSeconds,
                              RequestTypeReset}
       \/ Req(h).Type = RequestTypeAddSeconds /\ Atoi(Req(h).Payload).err

\* C9: a request with a bad payload, an unknown kind or undecodable bytes gets a
\* failure response and never reaches AddSeconds, Reset or GetStatus: its handler
\* goes from reading straight to the response, and these two steps leave the
\* timer and its lock exactly as they were.
C9_BadRequestLeavesTimer ==
    /\ [](\A h \in Handlers :
            BadRequest(h) => (hpc[h] = "respond" /\ ~hresp[h].Success))
    /\ [][\A h \in Handlers :
            (\/ hpc[h] = "reading" /\ hpc'[h] = "respond" /\ Receive(h)
             \/ hpc[h] = "respond" /\ ~hresp[h].Success /\ Respond(h))
                => UNCHANGED <<timerVars, lockVars>>]_vars

\* an add_seconds request with a non-integer payload is being refused while the
\* timer counts down
C9_Witness ==
    \E h \in Handlers :
        /\ hpc[h] = "respond"
        /\ BadRequest(h)
        /\ ~Decode(hraw[h]).err
        /\ Req(h).Type = RequestTypeAddSeconds
        /\ state = StateCountdown
        /\ duration > 0

\* the bytes handler h read do not decode into a Request
Malformed(h) == hraw[h] # NoRaw /\ Decode(hraw[h]).err

\* C10: malformed bytes are answered with success = false and a non-empty
\* message, and the daemon keeps accepting: the listener is still open and the
\* connection slot is free again once the answer is written.
C10_MalformedAnsweredDaemonUp ==
    /\ [](\A h \in Handlers :
            Malformed(h) => /\ hpc[h] = "respond"
                            /\ ~hresp[h].Success
                            /\ hresp[h].Message # ""
                            /\ mainpc = "accept")
    /\ [][\A h \in Handlers :
            (Respond(h) /\ Malformed(h))
                => /\ mainpc' = "accept"
                   /\ hpc'[h] = "free"
                   /\ UNCHANGED <<timerVars, lockVars>>]_vars

\* malformed bytes are being answered while the timer counts down
C10_Witness ==
    \E h \in Handlers :
        /\ Malformed(h)
        /\ hresp[h] = DecodeErrorResponse
        /\ state = StateCountdown

\* the order of a connection's steps in handleConnection: accepted, the request
\* read, the timer operation, the response written and the connection closed
HandlerOrder ==
    {<<"free", "reading">>,
     <<"reading", "status1">>, <<"reading", "add1">>, <<"reading", "reset1">>,
     <<"reading", "respond">>,
     <<"status1", "status2">>, <<"status2", "respond">>,
     <<"add1", "respond">>, <<"reset1", "respond">>,
     <<"respond", "free">>}

C12_NotifyOnlyOnCountdownZero ==
    [][\A g \in Loops :
          (RunTick(g) /\ gpc'[g] = "notify") => state = StateCountdown]_vars

\* handler h holds the acknowledgement of an AddSeconds of zero seconds
AddZeroAnswered(h) ==
    /\ hpc[h] = "respond"
    /\ ~Decode(hraw[h]).err
    /\ Req(h).Type = RequestTypeAddSeconds
    /\ ~Atoi(Req(h).Payload).err
    /\ Atoi(Req(h).Payload).val = 0

\* C13: AddSeconds(0) changes neither remaining nor phase, starts and stops no
\* tick loop, and is acknowledged with a success response.
C13_AddZeroIsNoOp ==
    /\ [][\A h \in Handlers :
            (hpc[h] = "add1" /\ hsec[h] = 0 /\ AddSeconds(h))
                => (UNCHANGED timerVars /\ hresp'[h].Success)]_vars
    /\ [](\A h \in Handlers : AddZeroAnswered(h) => hresp[h].Success)

\* an AddSeconds of zero has been acknowledged on an Idle timer
C13_Witness ==
    \E h \in Handlers :
        /\ AddZeroAnswered(h)
        /\ hresp[h].Success
        /\ state = StateIdle
        /\ duration = 0

\* C15: on a termination signal the daemon stops accepting and exits, and no
\* handler that has read its request is cut off before writing its response.
C15_ShutdownSparesInFlight ==
    [][Shutdown =>
          /\ mainpc' = "exited"
          /\ \A h \in Handlers : hpc[h] \in {"free", "reading"}]_vars

\* C16: a tick of the active loop, taken under the exclusive lock, decrements
\* remaining by one; a result > 0 leaves the phase Counting and the loop
\* listening; a result <= 0 sets remaining to 0, the phase to Idle, stops the
\* loop's ticker and ends the loop. Before the first request a timer started
\* with d > 0 is (Counting, 0 < remaining <= d) or has run out.
C16_TickDecrementsByOne ==
    /\ [][\A g \in Loops :
            (gpc[g] = "lock" /\ gchan[g] = ticker /\ RunTick(g))
                => /\ CanLock
                   /\ IF duration - 1 > 0
                      THEN /\ duration' = duration - 1
                           /\ state = StateCountdown
                           /\ state' = StateCountdown
                           /\ UNCHANGED <<ticker, stopped>>
                           /\ gpc'[g] = "recv"
                      ELSE /\ duration' = 0
                           /\ state' = StateIdle
                           /\ stopped'[gchan[g]]
                           /\ gpc'[g] = "notify"]_vars
    /\ [](mainpc = "listen" =>
            /\ duration \in 0..initialDuration
            /\ (state = StateCountdown) <=> (duration > 0)
            /\ (state = StateIdle) <=> (duration = 0))

\* the first tick loop has ticked the countdown down to zero
C16_Witness ==
    \E g \in Loops :
        /\ gpc[g] = "notify"
        /\ gchan[g] = ticker
        /\ nTickers = 1
        /\ stopped[ticker]
        /\ state = StateIdle
        /\ duration = 0

\* the run goroutines that have been started and have not returned
LiveLoops == {g \in Loops : gpc[g] \in {"spawned", "recv", "lock", "notify"}}

\* C17: at most one tick-loop goroutine is alive at any time.
C17_AtMostOneLiveLoop == Cardinality(LiveLoops) <= 1

\* C19: every tick loop ranges over the ticker created with it, and on reaching
\* zero stops that ticker and no other.
C19_LoopBoundToOwnTicker ==
    /\ [](\A g \in Loops : gchan[g] \in {0, g})
    /\ [][\A g \in Loops :
            (gpc[g] = "lock" /\ RunTick(g) /\ gpc'[g] = "notify")
                => (ticker = g /\ stopped' = [stopped EXCEPT ![g] = TRUE])]_vars

\* C20: while the notification is being sent, a Status, AddSeconds or Reset
\* request that has been read is not kept waiting for the timer lock.
C20_NotifyDoesNotBlockRequests ==
    \A h \in Handlers :
        ((\E g \in Loops : gpc[g] = "notify")
            /\ hpc[h] \in {"status1", "add1", "reset1"})
                => /\ ~muW
                   /\ hpc[h] = "status1" => ENABLED GetStatus_RLock(h)

\* a request that changes the timer has been read and waits for the lock
MutationPending == \E h \in Handlers : hpc[h] \in {"add1", "reset1"}

\* C18: a Counting timer always has an un-stopped ticker with a tick loop on it,
\* and, ticks being delivered, it reaches (Idle, 0) unless an AddSeconds or
\* Reset request arrives or the process ends.
C18_CountdownReachesIdle ==
    /\ []((Started /\ state = StateCountdown) => TickLoopActive)
    /\ (Started /\ state = StateCountdown)
          ~> \/ state = StateIdle /\ duration = 0
             \/ MutationPending

\* a countdown is running after a Reset left a superseded loop behind
C18_Witness ==
    /\ Started
    /\ state = StateCountdown
    /\ duration > 0
    /\ ~MutationPending
    /\ \E g \in Loops : gpc[g] \in {"recv", "lock"} /\ gchan[g] # ticker

\* C14: a connection whose client has sent nothing holds no timer lock and does
\* not delay the accept loop: mu is held only by a GetStatus in progress or by
\* run, another connection is accepted as soon as there is one, and its Status
\* request takes the read lock whenever no writer holds or waits for mu.
C14_SilentClientStallsNobody ==
    /\ muR \subseteq {h \in Handlers : hpc[h] = "status2"}
    /\ muW => \E g \in Loops : gpc[g] = "notify"
    /\ (stalled \/ \E k \in Handlers : hpc[k] = "reading") =>
          \A h \in Handlers :
              /\ (mainpc = "accept" /\ hpc[h] = "free") => ENABLED Accept(h)
              /\ (hpc[h] = "status1" /\ ~muW /\ ~WriterWaiting)
                    => ENABLED GetStatus_RLock(h)

\* a Status request has been answered while another client's connection stays
\* open with nothing sent on it
C14_Witness ==
    /\ stalled
    /\ \E h \in Handlers : StatusAnswered(h) /\ hresp[h].Success

=============================================================================
